---- MODULE Spec2Model ----
(***************************************************************************)
(* Model of src/app/app_task_list.py: the chat-start handler `main`.       *)
(*                                                                         *)
(* One handler invocation runs per chat session.  An invocation is a       *)
(* coroutine: it runs without interruption from one `await` to the next,   *)
(* so there is one action per awaited operation, and each action also      *)
(* carries the synchronous lines that follow the await up to the next one. *)
(* Python objects live in two heaps (`lists` for TaskList objects, `tasks` *)
(* for Task objects) and the handler's local variables hold references     *)
(* into them, so that a mutation through `task1` is seen through           *)
(* `task_list.tasks`, as in Python.                                        *)
(*                                                                         *)
(* An awaited operation may raise instead of completing; a raising         *)
(* operation has no effect of its own and the exception leaves `main`.     *)
(***************************************************************************)
EXTENDS Naturals, Sequences, FiniteSets, TLC

\* Number of chat sessions that start (each runs `main` once).
NumSessions == 2

\* cl.sleep(1), line 25: the delay, in ticks.
SleepDuration == 1

Sessions == 1..NumSessions

\* Python's None (unset local variable, unset forId).
None == <<>>

\* Message identifiers the framework can hand out (uuid-like: never reused).
MsgIds == { <<"msg", n>> : n \in 1..(NumSessions + 1) }

\* cl.TaskStatus members used by the script.
RUNNING == "running"
READY == "ready"
DONE == "done"
FAILED == "failed"

VARIABLES
    pc,         \* pc[s]: the await the invocation of session s is suspended at
    raisedAt,   \* raisedAt[s]: the await whose exception ended the invocation
    timer,      \* timer[s]: ticks left of cl.sleep(1)
    task_list,  \* local variable task_list of the invocation (a reference)
    task1,      \* local variable task1 (a reference)
    task2,      \* local variable task2 (a reference)
    message,    \* local variable message (the sent message, or None)
    lists,      \* heap of TaskList objects: ref -> [status, tasks]
    tasks,      \* heap of Task objects: ref -> [title, status, forId]
    messages,   \* messages[s]: the transcript of session s (sent messages)
    ui          \* ui[s]: the task-list states pushed to the UI of session s

vars == <<pc, raisedAt, timer, task_list, task1, task2, message,
          lists, tasks, messages, ui>>

----------------------------------------------------------------------------
\* Objects and framework calls

\* cl.TaskList() allocates a new object on every call (line 7).
TaskListShared(s) == <<"TaskList", 1>>
NewTaskListRef(s) == <<"TaskList", s>>

\* cl.Task(...) allocates a new object on every call (lines 11 and 14).
NewTaskRef(s, n) == <<"Task", s, n>>

\* cl.Task(title=..., status=...): forId starts unset.
Task(title, status) == [title |-> title, status |-> status, forId |-> None]

\* task_list.add_task(task): the task goes to the end of the list's tasks.
add_task_front(ls, r, t) == [ls EXCEPT ![r].tasks = <<t>> \o @]
add_task(ls, r, t) == [ls EXCEPT ![r].tasks = Append(@, t)]

\* cl.Message(content="Started processing data") with a fresh identifier.
Message(id) == [id |-> id, content |-> "Started processing data"]

UsedIds == UNION { { messages[s][i].id : i \in 1..Len(messages[s]) } : s \in Sessions }

\* What task_list.send() transmits: the list's status and its tasks' fields,
\* read through the references at the time of the call.
Snapshot(ls, ts, r) ==
    [status |-> ls[r].status,
     tasks  |-> [i \in 1..Len(ls[r].tasks) |-> ts[ls[r].tasks[i]]]]

\* task_list.send(): one push of the current state to the session's UI.
send_twice(u, s, snap) == [u EXCEPT ![s] = Append(Append(@, snap), snap)]
send(u, s, snap) == [u EXCEPT ![s] = Append(@, snap)]

----------------------------------------------------------------------------
\* The handler

\* The awaits of `main`, in program order (lines 12, 15, 18, 22, 25, 31).
Awaits == {"add_task1", "add_task2", "message_send", "send1", "sleep", "send2"}

AfterRenderFirst(p) ==
    CASE p = "idle"         -> "add_task1"
      [] p = "add_task1"    -> "add_task2"
      [] p = "add_task2"    -> "send1"
      [] p = "send1"        -> "message_send"
      [] p = "message_send" -> "sleep"
      [] p = "sleep"        -> "send2"
      [] p = "send2"        -> "done"
      [] OTHER              -> p
After(p) ==
    CASE p = "idle"         -> "add_task1"
      [] p = "add_task1"    -> "add_task2"
      [] p = "add_task2"    -> "message_send"
      [] p = "message_send" -> "send1"
      [] p = "send1"        -> "sleep"
      [] p = "sleep"        -> "send2"
      [] p = "send2"        -> "done"
      [] OTHER              -> p

\* Line 19: task1.forId = message.id
LinkSecond(ts, s, id) == [ts EXCEPT ![task2[s]].forId = id]
LinkTask(ts, s, id) == [ts EXCEPT ![task1[s]].forId = id]

\* Lines 28-29: task1.status = DONE; task2.status = FAILED
StatusesSwapped(ts, s) ==
    [ts EXCEPT ![task1[s]].status = FAILED, ![task2[s]].status = DONE]
StatusesFirstOnly(ts, s) == [ts EXCEPT ![task1[s]].status = DONE]
StatusesRepeated(ts, s) ==
    [ts EXCEPT ![task1[s]].status = DONE, ![task2[s]].status = READY]
UpdateTaskStatuses(ts, s) ==
    [ts EXCEPT ![task1[s]].status = DONE, ![task2[s]].status = FAILED]

\* Line 30: task_list.status = "Failed"
ListStatusKept(ls, s) == ls
UpdateListStatus(ls, s) == [ls EXCEPT ![task_list[s]].status = "Failed"]

\* No try/except in `main`: an exception of an awaited call ends the invocation.
OnErrorSwallow(p) == After(p)
OnError(p) == "raised"

Init ==
    /\ pc = [s \in Sessions |-> "idle"]
    /\ raisedAt = [s \in Sessions |-> "none"]
    /\ timer = [s \in Sessions |-> 0]
    /\ task_list = [s \in Sessions |-> None]
    /\ task1 = [s \in Sessions |-> None]
    /\ task2 = [s \in Sessions |-> None]
    /\ message = [s \in Sessions |-> None]
    /\ lists = <<>>
    /\ tasks = <<>>
    /\ messages = [s \in Sessions |-> <<>>]
    /\ ui = [s \in Sessions |-> <<>>]

\* @cl.on_chat_start: lines 7-12, up to the call of add_task(task1).
ChatStart(s) ==
    /\ pc[s] = "idle"
    /\ task_list' = [task_list EXCEPT ![s] = NewTaskListRef(s)]
    /\ lists' = (NewTaskListRef(s) :> [status |-> "Running...", tasks |-> <<>>]) @@ lists
    /\ task1' = [task1 EXCEPT ![s] = NewTaskRef(s, 1)]
    /\ tasks' = (NewTaskRef(s, 1) :> Task("Processing data", RUNNING)) @@ tasks
    /\ pc' = [pc EXCEPT ![s] = After(pc[s])]
    /\ UNCHANGED <<raisedAt, timer, task2, message, messages, ui>>

\* Line 12 completes; line 14; call of add_task(task2).
AddTask1(s) ==
    /\ pc[s] = "add_task1"
    /\ lists' = add_task(lists, task_list[s], task1[s])
    /\ task2' = [task2 EXCEPT ![s] = NewTaskRef(s, 2)]
    /\ tasks' = (NewTaskRef(s, 2) :> Task("Performing calculations", READY)) @@ tasks
    /\ pc' = [pc EXCEPT ![s] = After(pc[s])]
    /\ UNCHANGED <<raisedAt, timer, task_list, task1, message, messages, ui>>

\* Line 15 completes; the message of line 18 is about to be sent.
AddTask2(s) ==
    /\ pc[s] = "add_task2"
    /\ lists' = add_task(lists, task_list[s], task2[s])
    /\ pc' = [pc EXCEPT ![s] = After(pc[s])]
    /\ UNCHANGED <<raisedAt, timer, task_list, task1, task2, message, tasks,
                   messages, ui>>

\* Line 18 completes: the message is in the transcript; line 19 links task1.
MessageSend(s) ==
    /\ pc[s] = "message_send"
    /\ \E id \in MsgIds \ UsedIds :
          /\ messages' = [messages EXCEPT ![s] = Append(@, Message(id))]
          /\ message' = [message EXCEPT ![s] = Message(id)]
          /\ tasks' = LinkTask(tasks, s, id)
    /\ pc' = [pc EXCEPT ![s] = After(pc[s])]
    /\ UNCHANGED <<raisedAt, timer, task_list, task1, task2, lists, ui>>

\* Line 22 completes (first render); cl.sleep(1) of line 25 starts.
Send1(s) ==
    /\ pc[s] = "send1"
    /\ ui' = send(ui, s, Snapshot(lists, tasks, task_list[s]))
    /\ timer' = [timer EXCEPT ![s] = SleepDuration]
    /\ pc' = [pc EXCEPT ![s] = After(pc[s])]
    /\ UNCHANGED <<raisedAt, task_list, task1, task2, message, lists, tasks,
                   messages>>

\* Time passes while the invocation is suspended in cl.sleep(1).
Tick(s) ==
    /\ pc[s] = "sleep"
    /\ timer[s] > 0
    /\ timer' = [timer EXCEPT ![s] = @ - 1]
    /\ UNCHANGED <<pc, raisedAt, task_list, task1, task2, message, lists,
                   tasks, messages, ui>>

\* Line 25 completes; lines 28-30; call of task_list.send() of line 31.
Sleep(s) ==
    /\ pc[s] = "sleep"
    /\ timer[s] = 0
    /\ tasks' = UpdateTaskStatuses(tasks, s)
    /\ lists' = UpdateListStatus(lists, s)
    /\ pc' = [pc EXCEPT ![s] = After(pc[s])]
    /\ UNCHANGED <<raisedAt, timer, task_list, task1, task2, message,
                   messages, ui>>

\* Line 31 completes (second render); `main` returns.
Send2(s) ==
    /\ pc[s] = "send2"
    /\ ui' = send(ui, s, Snapshot(lists, tasks, task_list[s]))
    /\ pc' = [pc EXCEPT ![s] = After(pc[s])]
    /\ UNCHANGED <<raisedAt, timer, task_list, task1, task2, message, lists,
                   tasks, messages>>

\* The awaited operation raises: nothing of `main` runs after it.
Raise(s) ==
    /\ pc[s] \in Awaits
    /\ raisedAt' = [raisedAt EXCEPT ![s] = pc[s]]
    /\ pc' = [pc EXCEPT ![s] = OnError(pc[s])]
    /\ UNCHANGED <<timer, task_list, task1, task2, message, lists, tasks,
                   messages, ui>>

Next ==
    \E s \in Sessions :
        \/ ChatStart(s)
        \/ AddTask1(s)
        \/ AddTask2(s)
        \/ MessageSend(s)
        \/ Send1(s)
        \/ Tick(s)
        \/ Sleep(s)
        \/ Send2(s)
        \/ Raise(s)

Spec == Init /\ [][Next]_vars

----------------------------------------------------------------------------
\* What a session can observe of its own invocation

IsPrefix(a, b) == Len(a) <= Len(b) /\ a = SubSeq(b, 1, Len(a))

\* The position of the invocation: where it is, or where it was when it raised.
Pos(s) == IF pc[s] = "raised" THEN raisedAt[s] ELSE pc[s]

Rank(p) ==
    CASE p = "idle"         -> 0
      [] p = "add_task1"    -> 1
      [] p = "add_task2"    -> 2
      [] p = "message_send" -> 3
      [] p = "send1"        -> 4
      [] p = "sleep"        -> 5
      [] p = "send2"        -> 6
      [] p = "done"         -> 7

TwoTitles == <<"Processing data", "Performing calculations">>

ListOf(s) ==
    IF task_list[s] = None THEN None ELSE Snapshot(lists, tasks, task_list[s])
ListStatus(s) == IF task_list[s] = None THEN "absent" ELSE lists[task_list[s]].status
Titles(s) ==
    IF task_list[s] = None THEN <<>>
    ELSE [i \in 1..Len(ListOf(s).tasks) |-> ListOf(s).tasks[i].title]
Task1Of(s) == IF task1[s] = None THEN None ELSE tasks[task1[s]]
Task2Of(s) == IF task2[s] = None THEN None ELSE tasks[task2[s]]
Status1(s) == IF task1[s] = None THEN "absent" ELSE tasks[task1[s]].status
Status2(s) == IF task2[s] = None THEN "absent" ELSE tasks[task2[s]].status
ForId1(s) == IF task1[s] = None THEN None ELSE tasks[task1[s]].forId
ForId2(s) == IF task2[s] = None THEN None ELSE tasks[task2[s]].forId
SentIds(s) == { messages[s][i].id : i \in 1..Len(messages[s]) }

SessionState(s) ==
    [pc |-> pc[s], raisedAt |-> raisedAt[s], timer |-> timer[s],
     list |-> ListOf(s), task1 |-> Task1Of(s), task2 |-> Task2Of(s),
     message |-> message[s], messages |-> messages[s], ui |-> ui[s]]

----------------------------------------------------------------------------
\* C1: the task list only ever holds a prefix of <<'Processing data',
\* 'Performing calculations'>>, it only grows at its end, and once the
\* handler has run to completion it holds exactly these two, in this order.
C1_TwoTasksInOrder ==
    /\ [](\A s \in Sessions :
            /\ IsPrefix(Titles(s), TwoTitles)
            /\ pc[s] = "done" => Titles(s) = TwoTitles)
    /\ [][\A s \in Sessions : IsPrefix(Titles(s), Titles(s)')]_vars

C1_Witness ==
    \E s \in Sessions : pc[s] = "done" /\ Titles(s) = TwoTitles

\* C2: the first task's status goes running -> done and the second's
\* ready -> failed: these are the only status changes, each status is final
\* once changed, and both changes have happened when the delay is over.
C2_StatusTransitions ==
    /\ [](\A s \in Sessions :
            /\ Rank(Pos(s)) \in 1..5 => Status1(s) = RUNNING
            /\ Rank(Pos(s)) \in 2..5 => Status2(s) = READY
            /\ Rank(Pos(s)) >= 6 => Status1(s) = DONE /\ Status2(s) = FAILED)
    /\ [][\A s \in Sessions :
            /\ Status1(s)' # Status1(s) =>
                   <<Status1(s), Status1(s)'>> \in
                       {<<"absent", RUNNING>>, <<RUNNING, DONE>>}
            /\ Status2(s)' # Status2(s) =>
                   <<Status2(s), Status2(s)'>> \in
                       {<<"absent", READY>>, <<READY, FAILED>>}]_vars

C2_Witness ==
    \E s \in Sessions :
        pc[s] = "done" /\ Status1(s) = DONE /\ Status2(s) = FAILED

C4_OverallStatus ==
    /\ [](\A s \in Sessions :
            /\ Rank(Pos(s)) \in 1..5 => ListStatus(s) = "Running..."
            /\ Rank(Pos(s)) >= 6 => ListStatus(s) = "Failed")
    /\ [][\A s \in Sessions :
            ListStatus(s)' # ListStatus(s) =>
                <<ListStatus(s), ListStatus(s)'>> \in
                    {<<"absent", "Running...">>, <<"Running...", "Failed">>}]_vars

C4_Witness ==
    \E s \in Sessions : pc[s] = "send2" /\ ListStatus(s) = "Failed"

\* C5: a completed run has pushed the task list exactly twice; the first
\* push is the step that starts the delay, the second is the step that ends
\* the run after the delay is over; nothing is pushed while the invocation
\* is in the delay or after the second push.
C5_PushedTwice ==
    /\ [](\A s \in Sessions :
            /\ Rank(Pos(s)) <= 4 => Len(ui[s]) = 0
            /\ Rank(Pos(s)) \in 5..6 => Len(ui[s]) = 1
            /\ Rank(Pos(s)) = 7 => Len(ui[s]) = 2 /\ timer[s] = 0)
    /\ [][\A s \in Sessions :
            ui[s]' # ui[s] =>
                /\ Len(ui[s]') = Len(ui[s]) + 1
                /\ \/ /\ pc[s] = "send1" /\ pc[s]' = "sleep"
                      /\ Len(ui[s]) = 0
                      /\ timer[s]' = SleepDuration
                   \/ /\ pc[s] = "send2" /\ pc[s]' = "done"
                      /\ Len(ui[s]) = 1
                      /\ timer[s] = 0]_vars

C5_Witness ==
    \E s \in Sessions : pc[s] = "done" /\ Len(ui[s]) = 2 /\ timer[s] = 0

\* C6: when the handler has run to completion, the last state pushed to the
\* UI shows 'Processing data' done and linked to the sent message whose
\* content is 'Started processing data', 'Performing calculations' failed
\* and unlinked, and the overall status 'Failed'.
C6_FinalPushedState ==
    \A s \in Sessions :
        pc[s] = "done" =>
            /\ Len(ui[s]) >= 1
            /\ \E i \in 1..Len(messages[s]) :
                   /\ messages[s][i].content = "Started processing data"
                   /\ ui[s][Len(ui[s])] =
                          [status |-> "Failed",
                           tasks  |-> << [title  |-> "Processing data",
                                          status |-> DONE,
                                          forId  |-> messages[s][i].id],
                                         [title  |-> "Performing calculations",
                                          status |-> FAILED,
                                          forId  |-> None] >>]

C6_Witness ==
    \E s \in Sessions :
        pc[s] = "done" /\ Len(ui[s]) = 2 /\ ui[s][2].status = "Failed"

\* C7: the awaits are passed in program order, so the first render shows
\* exactly ('Running...', first task running and linked to the sent message,
\* second task ready), and every render shows two tasks, the first linked.
C7_FirstRenderSnapshot ==
    /\ [](\A s \in Sessions :
            /\ Len(ui[s]) >= 1 =>
                   /\ message[s] # None
                   /\ ui[s][1] =
                          [status |-> "Running...",
                           tasks  |-> << [title  |-> "Processing data",
                                          status |-> RUNNING,
                                          forId  |-> message[s].id],
                                         [title  |-> "Performing calculations",
                                          status |-> READY,
                                          forId  |-> None] >>]
            /\ \A i \in 1..Len(ui[s]) :
                   /\ Len(ui[s][i].tasks) = 2
                   /\ ui[s][i].tasks[1].forId # None)
    /\ [][\A s \in Sessions :
            pc[s]' # pc[s] =>
                \/ pc[s]' = "raised"
                \/ Rank(pc[s]') = Rank(pc[s]) + 1]_vars

C7_Witness ==
    \E s \in Sessions :
        /\ pc[s] = "sleep"
        /\ Len(ui[s]) = 1
        /\ ui[s][1].tasks[1].forId = message[s].id

\* C8: what the UI shows changes only in a push step, which appends the
\* list's state as it is then; the other steps leave it alone although they
\* change the list and the tasks, and no pushed state is mixed: it is either
\* (Running..., running, ready) or (Failed, done, failed).
StatusesOf(snap) == [i \in 1..Len(snap.tasks) |-> snap.tasks[i].status]

C8_NoAutoSync ==
    /\ [](\A s \in Sessions : \A i \in 1..Len(ui[s]) :
            \/ /\ ui[s][i].status = "Running..."
               /\ StatusesOf(ui[s][i]) = <<RUNNING, READY>>
            \/ /\ ui[s][i].status = "Failed"
               /\ StatusesOf(ui[s][i]) = <<DONE, FAILED>>)
    /\ [][\A s \in Sessions :
            /\ ui[s]' # ui[s] =>
                   /\ pc[s] \in {"send1", "send2"}
                   /\ pc[s]' \notin {pc[s], "raised"}
                   /\ ui[s]' = Append(ui[s], ListOf(s))
                   /\ ListOf(s)' = ListOf(s)
            /\ (ListOf(s)' # ListOf(s) \/ Task1Of(s)' # Task1Of(s)
                    \/ Task2Of(s)' # Task2Of(s)) => ui[s]' = ui[s]]_vars

C8_Witness ==
    \E s \in Sessions :
        /\ pc[s] = "send2"
        /\ Len(ui[s]) = 1
        /\ ui[s][1].status = "Running..."
        /\ StatusesOf(ui[s][1]) = <<RUNNING, READY>>
        /\ ListOf(s).status = "Failed"
        /\ StatusesOf(ListOf(s)) = <<DONE, FAILED>>

\* C9: sessions are isolated.  The state of a session (its list, tasks,
\* message, transcript, renders) is the one a run of that session alone has
\* at the same position, whatever the other sessions have done, and a step
\* of one invocation changes nothing of another session's state.
SoloTask1(p, m) ==
    IF Rank(p) = 0 THEN None
    ELSE [title  |-> "Processing data",
          status |-> IF Rank(p) >= 6 THEN DONE ELSE RUNNING,
          forId  |-> IF Rank(p) >= 4 THEN m.id ELSE None]

SoloTask2(p) ==
    IF Rank(p) <= 1 THEN None
    ELSE [title  |-> "Performing calculations",
          status |-> IF Rank(p) >= 6 THEN FAILED ELSE READY,
          forId  |-> None]

SoloList(p, m) ==
    IF Rank(p) = 0 THEN None
    ELSE [status |-> IF Rank(p) >= 6 THEN "Failed" ELSE "Running...",
          tasks  |-> CASE Rank(p) = 1 -> <<>>
                       [] Rank(p) = 2 -> <<SoloTask1(p, m)>>
                       [] OTHER       -> <<SoloTask1(p, m), SoloTask2(p)>>]

SoloUi(p, m) ==
    CASE Rank(p) <= 4     -> <<>>
      [] Rank(p) \in 5..6 -> <<SoloList("sleep", m)>>
      [] OTHER            -> <<SoloList("sleep", m), SoloList("done", m)>>

C9_SessionsIsolated ==
    /\ [](\A s \in Sessions :
            /\ message[s] # None <=> Rank(Pos(s)) >= 4
            /\ message[s] # None =>
                   /\ message[s].id \in MsgIds
                   /\ message[s].content = "Started processing data"
            /\ messages[s] = IF Rank(Pos(s)) >= 4 THEN <<message[s]>> ELSE <<>>
            /\ ListOf(s) = SoloList(Pos(s), message[s])
            /\ Task1Of(s) = SoloTask1(Pos(s), message[s])
            /\ Task2Of(s) = SoloTask2(Pos(s))
            /\ ui[s] = SoloUi(Pos(s), message[s]))
    /\ [][\A s \in Sessions :
            (pc[s]' # pc[s] \/ timer[s]' # timer[s]) =>
                \A t \in Sessions \ {s} : SessionState(t)' = SessionState(t)]_vars

C9_Witness ==
    \E s, t \in Sessions :
        /\ s # t
        /\ pc[s] = "done" /\ Len(ui[s]) = 2
        /\ pc[t] = "sleep" /\ Len(ui[t]) = 1
        /\ ListOf(t).status = "Running..."

\* C10: an awaited operation that raises ends the invocation there: its
\* position and its session's state never change again.  After a raising
\* message send the first task is unlinked and nothing was rendered; after
\* a raising first push or delay the statuses are running/ready and
\* 'Running...'.
C10_NoErrorHandling ==
    /\ [](\A s \in Sessions :
            /\ raisedAt[s] # "none" <=> pc[s] = "raised"
            /\ raisedAt[s] = "message_send" =>
                   ForId1(s) = None /\ ui[s] = <<>>
            /\ raisedAt[s] \in {"send1", "sleep"} =>
                   /\ Status1(s) = RUNNING
                   /\ Status2(s) = READY
                   /\ ListStatus(s) = "Running...")
    /\ [][\A s \in Sessions :
            raisedAt[s] # "none" => SessionState(s)' = SessionState(s)]_vars

C10_Witness ==
    \E s, t \in Sessions :
        /\ pc[s] = "raised" /\ raisedAt[s] = "message_send"
        /\ ForId1(s) = None /\ ui[s] = <<>>
        /\ pc[t] = "raised" /\ raisedAt[t] \in {"send1", "sleep"}
        /\ Status1(t) = RUNNING

====
